---- MODULE Spec2Model ----
(***************************************************************************)
(* Model of the ProductHunt leaderboard scraper:                           *)
(*   main.py                 POST /scrape handler (validation, response)   *)
(*   producthunt_scraper.py  URL builder, fetch step, record extractor     *)
(*                                                                         *)
(* Text is a sequence of one-character strings wherever the code inspects  *)
(* it (startswith, strip, int(), lower, replace); fixed literals that are  *)
(* only concatenated are single tokens of such a sequence.  An optional    *)
(* value (Python None / an absent element) is the empty set, a present     *)
(* value v is {v}.  Timestamps (datetime.now()) are left out of records    *)
(* and responses.                                                          *)
(***************************************************************************)
EXTENDS Integers, Sequences, FiniteSets, TLC

VARIABLES pc, req, url, fetched, fetchCalls, extractCalls, products, outcome

vars == <<pc, req, url, fetched, fetchCalls, extractCalls, products, outcome>>

(***************************************************************************)
(* Bounds of the model                                                     *)
(***************************************************************************)
\* datetime.now().year as seen by the handler
CurrentYear == 2015
\* longest page (number of top-level elements) the fetcher hands the handler
MaxPage == 2
\* longest page given to the record extractor on its own
MaxContainers == 3

\* main.py:90, first year with leaderboard data
MinYear == 2013

(***************************************************************************)
(* Optional values and text helpers                                        *)
(***************************************************************************)
None == {}
Some(v) == {v}
Val(o) == CHOOSE v \in o : TRUE

\* Python truthiness of an optional int, as used by all([...])
Truthy(o) == o # None /\ o # Some(0)

SeqsUpTo(S, n) == UNION {[1..k -> S] : k \in 0..n}

\* faulty variant: substring test in place of a prefix test
StartsWithContains(s, p) ==
    \E i \in 0..(Len(s) - Len(p)) : SubSeq(s, i + 1, i + Len(p)) = p

\* str.startswith
StartsWith(s, p) == Len(s) >= Len(p) /\ SubSeq(s, 1, Len(p)) = p

DigitChars == <<"0", "1", "2", "3", "4", "5", "6", "7", "8", "9">>

RECURSIVE NatStr(_)
NatStr(n) ==
    IF n < 10 THEN <<DigitChars[n + 1]>>
    ELSE NatStr(n \div 10) \o <<DigitChars[(n % 10) + 1]>>

\* f"{n}" for an int
Str(n) == IF n < 0 THEN <<"-">> \o NatStr(-n) ELSE NatStr(n)

(***************************************************************************)
(* URL builder: ProductHuntScraper._build_leaderboard_url                  *)
(***************************************************************************)
base_url == <<"https://www.producthunt.com/leaderboard">>

UrlOk(u) == [ok |-> TRUE, url |-> u, error |-> ""]
\* raise ValueError(msg)
UrlError(msg) == [ok |-> FALSE, url |-> <<>>, error |-> msg]

\* faulty variant: the featured flag is ignored
SuffixAlways(featured) == <<"/all">>

\* suffix = "" if featured else "/all"
Suffix(featured) == IF featured THEN <<>> ELSE <<"/all">>

BuildUrl(period, year, month, day, week, featured) ==
    IF period = "daily"
    THEN IF ~(Truthy(year) /\ Truthy(month) /\ Truthy(day))
         THEN UrlError("Year, month, and day are required for daily leaderboard")
         ELSE UrlOk(base_url \o <<"/">> \o <<"daily", "/">> \o Str(Val(year)) \o <<"/">>
                    \o Str(Val(month)) \o <<"/">> \o Str(Val(day)) \o Suffix(featured))
    ELSE IF period = "weekly"
    THEN IF ~(Truthy(year) /\ Truthy(week))
         THEN UrlError("Year and week are required for weekly leaderboard")
         ELSE UrlOk(base_url \o <<"/">> \o <<"weekly", "/">> \o Str(Val(year)) \o <<"/">>
                    \o Str(Val(week)) \o Suffix(featured))
    ELSE IF period = "monthly"
    THEN IF ~(Truthy(year) /\ Truthy(month))
         THEN UrlError("Year and month are required for monthly leaderboard")
         ELSE UrlOk(base_url \o <<"/">> \o <<"monthly", "/">> \o Str(Val(year)) \o <<"/">>
                    \o Str(Val(month)) \o Suffix(featured))
    ELSE UrlError("Period must be 'daily', 'weekly', or 'monthly'")

(***************************************************************************)
(* Request validation: main.py scrape_leaderboard, lines 72-101            *)
(***************************************************************************)
FcPrefix == <<"f", "c", "-">>

\* faulty variant: both bounds exclusive
YearInRangeExclusive(y) == ~(y <= MinYear \/ y >= CurrentYear)

\* request.year < 2013 or request.year > datetime.now().year
YearInRange(y) == ~(y < MinYear \/ y > CurrentYear)

\* faulty variant: the prefix test is dropped
ValidApiKeyNonEmpty(k) == k # <<>>

\* not request.api_key or not request.api_key.startswith("fc-")
ValidApiKey(k) == ~(k = <<>> \/ ~StartsWith(k, FcPrefix))

\* The detail of the HTTPException(400) the checks raise, None when all pass
ValidationError(r) ==
    IF r.period = "daily" /\ ~(Truthy(r.year) /\ Truthy(r.month) /\ Truthy(r.day))
    THEN Some("Year, month, and day are required for daily scraping")
    ELSE IF r.period = "weekly" /\ ~(Truthy(r.year) /\ Truthy(r.week))
    THEN Some("Year and week are required for weekly scraping")
    ELSE IF r.period = "monthly" /\ ~(Truthy(r.year) /\ Truthy(r.month))
    THEN Some("Year and month are required for monthly scraping")
    ELSE IF ~YearInRange(Val(r.year))
    THEN Some("Year must be between 2013 and current year")
    ELSE IF ~ValidApiKey(r.api_key)
    THEN Some("Valid Firecrawl API key is required (starts with 'fc-')")
    ELSE None

(***************************************************************************)
(* Text operations the extractor uses                                      *)
(***************************************************************************)
RECURSIVE LStrip(_)
LStrip(s) == IF s # <<>> /\ Head(s) = " " THEN LStrip(Tail(s)) ELSE s

RECURSIVE RStrip(_)
RStrip(s) ==
    IF s # <<>> /\ s[Len(s)] = " " THEN RStrip(SubSeq(s, 1, Len(s) - 1)) ELSE s

\* get_text(strip=True) of an element holding one text node
Strip(s) == RStrip(LStrip(s))

IsDigit(c) == \E i \in 1..10 : DigitChars[i] = c
DigitOf(c) == (CHOOSE i \in 1..10 : DigitChars[i] = c) - 1

RECURSIVE DigitsValue(_)
DigitsValue(s) ==
    IF s = <<>> THEN 0
    ELSE 10 * DigitsValue(SubSeq(s, 1, Len(s) - 1)) + DigitOf(s[Len(s)])

AllDigits(s) == s # <<>> /\ \A i \in 1..Len(s) : IsDigit(s[i])

IntOk(n) == [ok |-> TRUE, value |-> n]
IntFail == [ok |-> FALSE, value |-> 0]

\* int(text): optional sign, then decimal digits; anything else is ValueError
ParseInt(s) ==
    LET t == Strip(s) IN
    IF t # <<>> /\ Head(t) = "-"
    THEN IF AllDigits(Tail(t)) THEN IntOk(-DigitsValue(Tail(t))) ELSE IntFail
    ELSE IF t # <<>> /\ Head(t) = "+"
    THEN IF AllDigits(Tail(t)) THEN IntOk(DigitsValue(Tail(t))) ELSE IntFail
    ELSE IF AllDigits(t) THEN IntOk(DigitsValue(t)) ELSE IntFail

\* str.lower on the letters the model's titles use
LowerChar(c) == IF c = "A" THEN "a" ELSE IF c = "B" THEN "b" ELSE c

\* title.lower().replace(' ', '-')
Slug(title) ==
    [i \in 1..Len(title) |->
        IF LowerChar(title[i]) = " " THEN "-" ELSE LowerChar(title[i])]

(***************************************************************************)
(* Record extractor: _extract_single_product, _extract_products_from_html  *)
(*                                                                         *)
(* A page is the sequence of its top-level elements in document order.     *)
(* An element carries: tag, dataTest (its data-test attribute), img (the   *)
(* first <img>, with its src), nameDivs (the div[data-test^='post-name-']  *)
(* elements in document order, each with its first <a> and its next        *)
(* sibling div), voteText (text of button[data-test='vote-button'] p) and  *)
(* tagLinks (texts of the links under the TagList div).                    *)
(***************************************************************************)
site_origin == <<"https://www.producthunt.com">>

\* select_one: first match in document order, None when there is none
SelectOne(matches) == IF matches = <<>> THEN None ELSE Some(matches[1])

\* section[data-test^='post-item']
IsPostItem(e) ==
    /\ e.tag = "section"
    /\ e.dataTest # None
    /\ StartsWith(Val(e.dataTest), <<"post-item">>)

RECURSIVE SelectSections(_)
SelectSections(page) ==
    IF page = <<>> THEN <<>>
    ELSE (IF IsPostItem(Head(page)) THEN <<Head(page)>> ELSE <<>>)
         \o SelectSections(Tail(page))

\* next_div and ("text-secondary" in class or data-sentry-component == "LegacyText")
IsSecondaryText(d) ==
    "text-secondary" \in d.classes \/ d.component = Some("LegacyText")

\* votes = 0; if vote_button: try int(text) except (ValueError, TypeError): pass
Votes(section) ==
    IF section.voteText = None THEN 0
    ELSE LET r == ParseInt(Strip(Val(section.voteText))) IN
         IF r.ok THEN r.value ELSE 0

StripAll(texts) == [i \in 1..Len(texts) |-> Strip(texts[i])]

\* None of the steps below can raise on the elements of the model, so the
\* except branch (lines 165-167) is the same None as the two early returns.
ExtractSingleProduct(section, index) ==
    LET logo_url == IF section.img # None THEN Val(section.img).src ELSE None
        title_div == SelectOne(section.nameDivs)
    IN
    IF title_div = None THEN None
    ELSE
    LET title_link == Val(title_div).link IN
    IF title_link = None THEN None
    ELSE
    LET title == Strip(Val(title_link).text)
        href == Val(title_link).href
        product_url ==
            IF href # None /\ Val(href) # <<>> /\ StartsWith(Val(href), <<"/">>)
            THEN Some(site_origin \o Val(href))
            ELSE href
        next_div == Val(title_div).next
        description ==
            IF next_div # None /\ IsSecondaryText(Val(next_div))
            THEN Some(Strip(Val(next_div).text))
            ELSE None
    IN Some([index |-> index,
             logo |-> logo_url,
             title |-> title,
             description |->
                 IF description # None /\ Val(description) # <<>>
                 THEN Val(description)
                 ELSE title \o <<" - Product from ProductHunt">>,
             product_url |->
                 IF product_url # None /\ Val(product_url) # <<>>
                 THEN Val(product_url)
                 ELSE <<"https://www.producthunt.com/posts/">> \o Slug(title),
             votes |-> Votes(section),
             tags |-> StripAll(section.tagLinks)])

\* for idx, section in enumerate(product_sections, 1): append when a record comes back
RECURSIVE ExtractFrom(_, _)
ExtractFrom(sections, idx) ==
    IF idx > Len(sections) THEN <<>>
    ELSE LET product == ExtractSingleProduct(sections[idx], idx) IN
         (IF product # None THEN <<Val(product)>> ELSE <<>>)
         \o ExtractFrom(sections, idx + 1)

\* faulty variant: records numbered by output ordinal, not by attempt
RECURSIVE ExtractRenumbered(_, _)
ExtractRenumbered(sections, out) ==
    IF sections = <<>> THEN <<>>
    ELSE LET product == ExtractSingleProduct(Head(sections), out) IN
         IF product # None
         THEN <<Val(product)>> \o ExtractRenumbered(Tail(sections), out + 1)
         ELSE ExtractRenumbered(Tail(sections), out)

ExtractProductsRenumbered(page) == ExtractRenumbered(SelectSections(page), 1)

ExtractProducts(page) == ExtractFrom(SelectSections(page), 1)

(***************************************************************************)
(* Inputs                                                                  *)
(***************************************************************************)
OptParts(S) == {None} \cup {Some(v) : v \in S}

Keys == { <<>>, <<"f", "c", "-", "k">>, <<"s", "k", "-", "k">>, <<"x", "f", "c", "-">> }
Periods == {"daily", "weekly", "monthly", "yearly"}
Years == (MinYear - 1)..(CurrentYear + 1)

\* ScrapeRequest: year is a required int, month/day/week are Optional[int]
Requests ==
    [api_key : Keys, period : Periods, year : {Some(y) : y \in Years},
     month : OptParts({0, 3}), day : OptParts({0, 7}), week : OptParts({0, 12}),
     featured : BOOLEAN]

\* Arguments of _build_leaderboard_url called on its own: year may be None too
UrlInputs ==
    [api_key : {<<>>}, period : Periods, year : OptParts({0, MinYear, CurrentYear}),
     month : OptParts({0, 3}), day : OptParts({0, 7}), week : OptParts({0, 12}),
     featured : BOOLEAN]

Elem(tag, dataTest, img, nameDivs, voteText, tagLinks) ==
    [tag |-> tag, dataTest |-> dataTest, img |-> img, nameDivs |-> nameDivs,
     voteText |-> voteText, tagLinks |-> tagLinks]

Link(text, href) == [text |-> text, href |-> href]
NameDiv(link, next) == [link |-> link, next |-> next]
Div(classes, component, text) ==
    [classes |-> classes, component |-> component, text |-> text]

PostItem == Some(<<"post-item", "-", "1">>)

LinkTexts == { <<" ">>, <<"A">>, <<" ", "A", " ", "B", " ">> }
Hrefs == { None, Some(<<>>), Some(<<"/", "posts/acme">>), Some(<<"https://acme.io">>) }
NextDivs ==
    { None,
      Some(Div({"text-secondary"}, None, <<" ", "d", " ">>)),
      Some(Div({}, Some("LegacyText"), <<" ">>)),
      Some(Div({"flex"}, Some("Other"), <<"d">>)) }
Imgs == { None, Some([src |-> None]), Some([src |-> Some(<<"logo.png">>)]) }
VoteTexts ==
    { None, Some(<<>>), Some(<<"7">>), Some(<<" ", "1", "2", " ">>), Some(<<"-", "5">>),
      Some(<<"+", "3">>), Some(<<"1", ".", "2", "K">>), Some(<<"-">>) }
TagLists == { <<>>, << <<" ", "A", " ">>, <<"B">> >> }

NameDivLists ==
    { <<>> }
    \cup { <<NameDiv(None, n)>> : n \in NextDivs }
    \cup { <<NameDiv(Some(Link(t, h)), n)>> : t \in LinkTexts, h \in Hrefs, n \in NextDivs }
    \cup { <<NameDiv(None, None), NameDiv(Some(Link(<<"A">>, None)), None)>> }

\* Every item container the model's markup alphabet can spell
AllContainers ==
    { Elem("section", PostItem, i, d, v, t) :
        i \in Imgs, d \in NameDivLists, v \in VoteTexts, t \in TagLists }

GoodItem ==
    Elem("section", PostItem, Some([src |-> Some(<<"logo.png">>)]),
         <<NameDiv(Some(Link(<<" ", "A", " ", "B", " ">>, Some(<<"/", "posts/acme">>))),
                   Some(Div({"text-secondary"}, None, <<" ", "d", " ">>)))>>,
         Some(<<"7">>), << <<" ", "A", " ">>, <<"B">> >>)
BareItem ==
    Elem("section", Some(<<"post-item">>), None,
         <<NameDiv(Some(Link(<<"A">>, None)), None)>>, Some(<<"1", ".", "2", "K">>), <<>>)
NoNameItem == Elem("section", PostItem, None, <<>>, Some(<<"7">>), <<>>)
NoLinkItem == Elem("section", PostItem, None, <<NameDiv(None, None)>>, None, <<>>)
\* elements the selector does not match
Footer == Elem("section", Some(<<"footer">>), None, <<>>, None, <<>>)
DivItem ==
    Elem("div", PostItem, None, <<NameDiv(Some(Link(<<"A">>, None)), None)>>, None, <<>>)
Unmarked ==
    Elem("section", None, None, <<NameDiv(Some(Link(<<"A">>, None)), None)>>, None, <<>>)
NotPrefix ==
    Elem("section", Some(<<"x", "post-item">>), None,
         <<NameDiv(Some(Link(<<"A">>, None)), None)>>, None, <<>>)

NoiseElems == {Footer, DivItem, Unmarked, NotPrefix}
BatchElems == {GoodItem, BareItem, NoNameItem, NoLinkItem, Footer}
PageElems == {GoodItem, NoNameItem, NoLinkItem, Footer}

\* Pages handed to the extractor on its own
ExtractPages ==
    SeqsUpTo(BatchElems, MaxContainers)
    \cup { <<c>> : c \in AllContainers \cup NoiseElems }
    \cup { <<n, GoodItem>> : n \in NoiseElems }

\* What firecrawl.scrape can do: raise, or return a document whose html is
\* None, "" or a page
FetchCauses == {"Connection timed out", "Unauthorized: Invalid token"}
NotFetched == [kind |-> "none", cause |-> "", html |-> None]
FetchRaise(cause) == [kind |-> "raise", cause |-> cause, html |-> None]
FetchReturn(html) == [kind |-> "return", cause |-> "", html |-> html]
FetchOutcomes ==
    { FetchRaise(c) : c \in FetchCauses }
    \cup { FetchReturn(None) }
    \cup { FetchReturn(Some(p)) : p \in SeqsUpTo(PageElems, MaxPage) }

(***************************************************************************)
(* Outcomes of one POST /scrape call                                       *)
(***************************************************************************)
Pending ==
    [kind |-> "pending", status |-> 0, detail |-> "", success |-> FALSE,
     products |-> <<>>, total_found |-> 0, message |-> None, error |-> None]

\* raise HTTPException(status_code=400, detail=...)
HttpError(detail) ==
    [kind |-> "http_error", status |-> 400, detail |-> detail, success |-> FALSE,
     products |-> <<>>, total_found |-> 0, message |-> None, error |-> None]

\* faulty variant: total_found taken from the last section index
SuccessResponseCountsSections(ps, period) ==
    [kind |-> "response", status |-> 200, detail |-> "", success |-> TRUE,
     products |-> ps, total_found |-> IF ps = <<>> THEN 0 ELSE ps[Len(ps)].index,
     message |-> Some(<<"Successfully scraped ">> \o Str(Len(ps))
                      \o <<" products from ProductHunt ", period, " leaderboard">>),
     error |-> None]

\* main.py 115-121
SuccessResponse(ps, period) ==
    [kind |-> "response", status |-> 200, detail |-> "", success |-> TRUE,
     products |-> ps, total_found |-> Len(ps),
     message |-> Some(<<"Successfully scraped ">> \o Str(Len(ps))
                      \o <<" products from ProductHunt ", period, " leaderboard">>),
     error |-> None]

\* faulty variant: the failure leaves the handler as an HTTP error
FailureResponseRaises(e) == HttpError(e)

\* main.py 129-137: except Exception as e
FailureResponse(e) ==
    [kind |-> "response", status |-> 200, detail |-> "", success |-> FALSE,
     products |-> <<>>, total_found |-> 0, message |-> None, error |-> Some(e)]

NoHtmlMessage == "No HTML content found in Firecrawl response"

NoUrl == [ok |-> FALSE, url |-> <<>>, error |-> ""]

(***************************************************************************)
(* One POST /scrape call, step by step.  pc is the handler's position:     *)
(*   validate -> build -> fetch -> extract -> done                         *)
(***************************************************************************)
Init ==
    /\ pc = "validate"
    /\ req \in Requests
    /\ url = NoUrl
    /\ fetched = NotFetched
    /\ fetchCalls = 0
    /\ extractCalls = 0
    /\ products = <<>>
    /\ outcome = Pending

\* main.py 72-101: the three checks, each raising HTTPException(400), which
\* the handler's "except HTTPException: raise" lets through
Validate ==
    /\ pc = "validate"
    /\ LET err == ValidationError(req) IN
       IF err # None
       THEN /\ outcome' = HttpError(Val(err))
            /\ pc' = "done"
       ELSE /\ outcome' = outcome
            /\ pc' = "build"
    /\ UNCHANGED <<req, url, fetched, fetchCalls, extractCalls, products>>

\* main.py 104-112 -> scrape_producthunt 194-202 -> scrape_leaderboard 36:
\* the URL is built outside the scraper's try; a ValueError travels up to the
\* handler's "except Exception" (main.py 129-137).  Constructing the client
\* (Firecrawl(api_key=...), line 13) performs no request and is taken to succeed
\* for the non-empty keys that pass validation.
Build ==
    /\ pc = "build"
    /\ LET u == BuildUrl(req.period, req.year, req.month, req.day, req.week,
                         req.featured) IN
       /\ url' = u
       /\ IF u.ok
          THEN /\ pc' = "fetch"
               /\ outcome' = outcome
          ELSE /\ pc' = "done"
               /\ outcome' = FailureResponse(u.error)
    /\ UNCHANGED <<req, fetched, fetchCalls, extractCalls, products>>

\* producthunt_scraper.py 39-48, 61-63: firecrawl.scrape(url); an exception,
\* or html that is None or "", ends the call in the handler's except branch
Fetch ==
    /\ pc = "fetch"
    /\ \E f \in FetchOutcomes :
        /\ fetched' = f
        /\ fetchCalls' = fetchCalls + 1
        /\ IF f.kind = "raise"
           THEN /\ pc' = "done"
                /\ outcome' = FailureResponse(f.cause)
           ELSE IF f.html = None \/ Val(f.html) = <<>>
           THEN /\ pc' = "done"
                /\ outcome' = FailureResponse(NoHtmlMessage)
           ELSE /\ pc' = "extract"
                /\ outcome' = outcome
    /\ UNCHANGED <<req, url, extractCalls, products>>

\* producthunt_scraper.py 53-59 and main.py 115-124
Extract ==
    /\ pc = "extract"
    /\ extractCalls' = extractCalls + 1
    /\ products' = ExtractProducts(Val(fetched.html))
    /\ outcome' = SuccessResponse(products', req.period)
    /\ pc' = "done"
    /\ UNCHANGED <<req, url, fetched, fetchCalls>>

Next == Validate \/ Build \/ Fetch \/ Extract

Spec == Init /\ [][Next]_vars

(***************************************************************************)
(* _build_leaderboard_url applied to arbitrary arguments                   *)
(***************************************************************************)
InitUrl ==
    /\ pc = "url_input"
    /\ req \in UrlInputs
    /\ url = NoUrl
    /\ fetched = NotFetched
    /\ fetchCalls = 0
    /\ extractCalls = 0
    /\ products = <<>>
    /\ outcome = Pending

ApplyBuildUrl ==
    /\ pc = "url_input"
    /\ url' = BuildUrl(req.period, req.year, req.month, req.day, req.week, req.featured)
    /\ pc' = "url_done"
    /\ UNCHANGED <<req, fetched, fetchCalls, extractCalls, products, outcome>>

NextUrl == ApplyBuildUrl

SpecUrl == InitUrl /\ [][NextUrl]_vars

(***************************************************************************)
(* _extract_products_from_html applied to arbitrary pages                  *)
(***************************************************************************)
InitExtract ==
    /\ pc = "extract_input"
    /\ req \in {CHOOSE r \in Requests : ValidationError(r) = None}
    /\ url = NoUrl
    /\ fetched \in {FetchReturn(Some(p)) : p \in ExtractPages}
    /\ fetchCalls = 0
    /\ extractCalls = 0
    /\ products = <<>>
    /\ outcome = Pending

ApplyExtract ==
    /\ pc = "extract_input"
    /\ extractCalls' = extractCalls + 1
    /\ products' = ExtractProducts(Val(fetched.html))
    /\ pc' = "extract_done"
    /\ UNCHANGED <<req, url, fetched, fetchCalls, outcome>>

NextExtract == ApplyExtract

SpecExtract == InitExtract /\ [][NextExtract]_vars

(***************************************************************************)
(* The claims.  Their vocabulary is spelled out here on its own, apart     *)
(* from the operators that model the code.                                 *)
(***************************************************************************)
KnownPeriods == {"daily", "weekly", "monthly"}

\* the date components a period kind requires
Required(r) ==
    IF r.period = "daily" THEN {r.year, r.month, r.day}
    ELSE IF r.period = "weekly" THEN {r.year, r.week}
    ELSE IF r.period = "monthly" THEN {r.year, r.month}
    ELSE {}

HasFcPrefix(k) == Len(k) >= 3 /\ k[1] = "f" /\ k[2] = "c" /\ k[3] = "-"

YearSupported(r) == r.year # None /\ Val(r.year) >= MinYear /\ Val(r.year) <= CurrentYear

\* a required component is missing, the year is out of range, or the
\* credential lacks the prefix
FailsValidation(r) ==
    \/ None \in Required(r)
    \/ ~YearSupported(r)
    \/ ~HasFcPrefix(r.api_key)

Rejected == outcome.kind = "http_error" /\ outcome.status = 400

FetchFailed ==
    /\ fetchCalls > 0
    /\ \/ fetched.kind = "raise"
       \/ fetched.html = None
       \/ Val(fetched.html) = <<>>

\* C1: a request that fails validation is rejected with a client error and the
\* fetcher is never invoked for it; the fetcher is invoked only after every
\* validation check has passed and the URL has been built.
C1_ValidationBeforeFetch ==
    /\ fetchCalls > 0 => ~FailsValidation(req) /\ url.ok /\ url.url # <<>>
    /\ FailsValidation(req) => fetchCalls = 0
    /\ pc = "done" /\ FailsValidation(req) => Rejected
    /\ outcome.kind = "http_error" => fetchCalls = 0 /\ extractCalls = 0

C1_Witness ==
    /\ pc = "done"
    /\ req.period = "weekly" /\ req.week = None
    /\ YearSupported(req) /\ HasFcPrefix(req.api_key)
    /\ Rejected

\* C2: when the fetcher raises or returns no or empty markup, the call returns
\* a result with success = false, no products, total_found = 0 and an error
\* message carrying the cause, and the extractor is not run.
C2_FetchFailureIsResult ==
    pc = "done" /\ FetchFailed =>
        /\ outcome.kind = "response"
        /\ outcome.success = FALSE
        /\ outcome.products = <<>>
        /\ outcome.total_found = 0
        /\ outcome.error # None
        /\ fetched.kind = "raise" => outcome.error = Some(fetched.cause)
        /\ fetched.kind = "return" =>
               outcome.error = Some("No HTML content found in Firecrawl response")
        /\ extractCalls = 0
        /\ products = <<>>

C2_Witness ==
    /\ pc = "done"
    /\ fetched.kind = "raise"
    /\ outcome.kind = "response" /\ ~outcome.success

\* C3: a request whose period kind is not daily, weekly or monthly, with year
\* and credential valid, is rejected as a client error before any I/O and is
\* never returned as a result payload.
C3_UnknownPeriodRejected ==
    pc = "done" /\ req.period \notin KnownPeriods
               /\ YearSupported(req) /\ HasFcPrefix(req.api_key) =>
        Rejected /\ fetchCalls = 0

\* the item containers of a page, in document order
IsContainer(e) ==
    /\ e.tag = "section"
    /\ e.dataTest # None
    /\ Val(e.dataTest) # <<>>
    /\ Val(e.dataTest)[1] = "post-item"

Positions(page) == {i \in 1..Len(page) : IsContainer(page[i])}

\* the 1-based ordinal of the container at position i among the containers
Ordinal(page, i) == Cardinality({k \in Positions(page) : k <= i})

\* the container's name-marker element (the one the extractor locates, the
\* first in document order) exists and holds a hyperlink
HasNameLink(c) == c.nameDivs # <<>> /\ c.nameDivs[1].link # None

LinkText(c) == Val(c.nameDivs[1].link).text

Trimmed(s) ==
    LET keep == {i \in 1..Len(s) : s[i] # " "} IN
    IF keep = {} THEN <<>>
    ELSE LET lo == CHOOSE i \in keep : \A j \in keep : i <= j
             hi == CHOOSE i \in keep : \A j \in keep : i >= j
         IN SubSeq(s, lo, hi)

Page == Val(fetched.html)

\* C4: extractRecords returns exactly one record per container whose
\* name-marker element has a hyperlink and none for the others, in document
\* order, the record of the i-th container carrying index i; N well-formed
\* containers give N records indexed 1..N, and a malformed container does not
\* keep the others from producing records.
C4_OneRecordPerNamedContainer ==
    pc = "extract_done" =>
        LET named == {i \in Positions(Page) : HasNameLink(Page[i])} IN
        /\ Len(products) = Cardinality(named)
        /\ \A i \in named : \E j \in 1..Len(products) :
               /\ products[j].index = Ordinal(Page, i)
               /\ products[j].title = Trimmed(LinkText(Page[i]))
        /\ \A j \in 1..Len(products) : \E i \in named :
               products[j].index = Ordinal(Page, i)
        /\ \A j, k \in 1..Len(products) :
               j < k => products[j].index < products[k].index
        /\ named = Positions(Page) =>
               \A j \in 1..Len(products) : products[j].index = j

C4_Witness ==
    /\ pc = "extract_done"
    /\ Len(Page) = 3
    /\ HasNameLink(Page[1]) /\ IsContainer(Page[1])
    /\ ~HasNameLink(Page[2]) /\ IsContainer(Page[2])
    /\ HasNameLink(Page[3]) /\ IsContainer(Page[3])
    /\ Len(products) = 2
    /\ products[2].index = 3

\* decimal digits of a natural number, most significant first
RECURSIVE Decimal(_)
Decimal(n) ==
    (IF n >= 10 THEN Decimal(n \div 10) ELSE <<>>) \o <<DigitChars[(n % 10) + 1]>>

ExpectedPath(r) ==
    IF r.period = "daily"
    THEN <<"/", "daily", "/">> \o Decimal(Val(r.year)) \o <<"/">>
         \o Decimal(Val(r.month)) \o <<"/">> \o Decimal(Val(r.day))
    ELSE IF r.period = "weekly"
    THEN <<"/", "weekly", "/">> \o Decimal(Val(r.year)) \o <<"/">>
         \o Decimal(Val(r.week))
    ELSE <<"/", "monthly", "/">> \o Decimal(Val(r.year)) \o <<"/">>
         \o Decimal(Val(r.month))

ExpectedUrl(r) ==
    <<"https://www.producthunt.com/leaderboard">> \o ExpectedPath(r)
    \o (IF r.featured = FALSE THEN <<"/all">> ELSE <<>>)

\* C5 as stated: buildUrl returns the base, the path of the kind and '/all'
\* exactly when featured is false; it returns InvalidPeriod, and no URL,
\* exactly when the kind is unknown or a required component is missing.
C5_UrlShapeMissingOnly ==
    pc = "url_done" =>
        LET invalid == req.period \notin KnownPeriods \/ None \in Required(req) IN
        /\ url.ok = ~invalid
        /\ invalid => url.url = <<>>
        /\ ~invalid => url.url = ExpectedUrl(req)

\* C5 amended: as above, with a required component that is zero counted as
\* missing.
C5_UrlShape ==
    pc = "url_done" =>
        LET invalid ==
                \/ req.period \notin KnownPeriods
                \/ None \in Required(req)
                \/ Some(0) \in Required(req)
        IN
        /\ url.ok = ~invalid
        /\ invalid => url.url = <<>> /\ url.error # ""
        /\ ~invalid => url.url = ExpectedUrl(req)

C5_Witness ==
    /\ pc = "url_done"
    /\ req.period = "weekly" /\ req.featured
    /\ req.month = None /\ req.day = Some(0)
    /\ url.ok
    /\ url.url[Len(url.url)] = "2"

\* the value of a text that is an optional sign followed by decimal digits,
\* None for any other text
IntegerOf(t) ==
    LET body == IF t # <<>> /\ t[1] \in {"+", "-"} THEN Tail(t) ELSE t IN
    IF body = <<>> \/ \E i \in 1..Len(body) : ~IsDigit(body[i]) THEN None
    ELSE IF t[1] = "-" THEN Some(-DigitsValue(body)) ELSE Some(DigitsValue(body))

\* C6: every record the extractor returns has votes >= 0; votes is the integer
\* parsed from the vote-button text, 0 when the element is absent or its text
\* does not parse; vote extraction never drops the record.
C6_VotesNonNegative ==
    pc = "extract_done" =>
        /\ \A j \in 1..Len(products) : products[j].votes >= 0
        /\ \A i \in Positions(Page) : HasNameLink(Page[i]) =>
               \E j \in 1..Len(products) :
                   /\ products[j].index = Ordinal(Page, i)
                   /\ LET v == Page[i].voteText IN
                      products[j].votes =
                          IF v = None \/ IntegerOf(Trimmed(Val(v))) = None THEN 0
                          ELSE Val(IntegerOf(Trimmed(Val(v))))

\* C7: every record single-record extraction returns has a non-empty title; a
\* record is produced only for a container whose name-marker hyperlink exists,
\* and its title is the trimmed link text.
C7_TitleNonEmpty ==
    pc = "extract_done" =>
        /\ \A j \in 1..Len(products) : products[j].title # <<>>
        /\ \A j \in 1..Len(products) : \E i \in Positions(Page) :
               /\ HasNameLink(Page[i])
               /\ products[j].index = Ordinal(Page, i)
               /\ products[j].title = Trimmed(LinkText(Page[i]))

\* period known, every required component present and at least 1, credential
\* with the prefix
OtherFieldsValid(r) ==
    /\ r.period \in KnownPeriods
    /\ \A c \in Required(r) : c # None /\ Val(c) >= 1
    /\ HasFcPrefix(r.api_key)

\* C8: with all other fields valid, year 2012 and year current_year + 1 are
\* rejected, and 2013 and every year up to the current year are accepted.
C8_YearBoundsInclusive ==
    pc = "done" /\ OtherFieldsValid(req) =>
        LET y == Val(req.year) IN
        /\ y = 2012 \/ y = CurrentYear + 1 => Rejected /\ fetchCalls = 0
        /\ y < 2013 \/ y > CurrentYear => Rejected /\ fetchCalls = 0
        /\ y >= 2013 /\ y <= CurrentYear =>
               outcome.kind = "response" /\ fetchCalls = 1

C8_Witness ==
    /\ pc = "done"
    /\ OtherFieldsValid(req)
    /\ Val(req.year) = 2013
    /\ fetchCalls = 1
    /\ outcome.kind = "response" /\ outcome.success

\* C9: a request whose credential does not start with 'fc-', the empty
\* credential included, is rejected whatever the other fields are; it never
\* reaches the fetcher and never yields a ScrapeResult.
C9_BadCredentialRejected ==
    ~HasFcPrefix(req.api_key) =>
        /\ fetchCalls = 0
        /\ extractCalls = 0
        /\ outcome.kind # "response"
        /\ pc \in {"validate", "done"}
        /\ pc = "done" => Rejected

C9_Witness ==
    /\ pc = "done"
    /\ req.api_key = <<"x", "f", "c", "-">>
    /\ req.period = "yearly"
    /\ Val(req.year) = 2013
    /\ Rejected

\* C10: every ScrapeResult has total_found equal to the length of products;
\* non-empty markup with no item container gives success = true, products
\* empty and total_found = 0.
C10_TotalFoundIsLength ==
    /\ outcome.kind = "response" => outcome.total_found = Len(outcome.products)
    /\ pc = "done" /\ fetched.kind = "return" /\ fetched.html # None
           /\ Page # <<>> /\ Positions(Page) = {} =>
           /\ outcome.kind = "response"
           /\ outcome.success
           /\ outcome.products = <<>>
           /\ outcome.total_found = 0

C10_Witness ==
    /\ pc = "done"
    /\ fetched.kind = "return" /\ fetched.html # None
    /\ Page # <<>> /\ Positions(Page) = {}
    /\ outcome.success

====
